---- MODULE Spec2Model ----
(***************************************************************************)
(* A model of predict_debias.py: evaluate() and the functions it calls.    *)
(*                                                                         *)
(* Three specifications share the operators below.                         *)
(*   Spec      the whole of evaluate(): news encoding, debiasing, user     *)
(*             encoding and the ranking loop, over small input tables.     *)
(*   SpecRank  lines 317-326 of evaluate() (probabilities -> output line)  *)
(*             applied to every probability vector within the bounds.      *)
(*   SpecNeut  neutralize_embeddings() applied, one loop iteration per     *)
(*             step, to every embedding set and basis within the bounds.   *)
(*                                                                         *)
(* Real numbers are exact.  A vector is a record [num, sq] standing for    *)
(* num / sqrt(sq): integers over the square root of a natural number.      *)
(* sq = 0 is the result of dividing by a zero norm, which torch evaluates  *)
(* to NaN in every component (0/0).                                        *)
(***************************************************************************)
EXTENDS Integers, Sequences, FiniteSets, TLC

VARIABLES
    (* ---- evaluate(): inputs ---- *)
    news_table,         \* news_parsed.tsv: rows [id, category, vec]
    behaviors_table,    \* behaviors.tsv as read at line 265 (and again at line 289):
                        \* rows [impression_id, user, clicked_news, impressions]
    max_count,          \* evaluate's max_count parameter
    batch_size,         \* config.batch_size * 16
    (* ---- evaluate(): state ---- *)
    pc,                 \* position in evaluate()
    news_idx,           \* rows of news_dataloader consumed
    news2vector,        \* dict: news id -> vector
    neutralized_embeddings_tensor,  \* line 258
    user_dataset,       \* UserDataset.behaviors, line 265
    user_idx,           \* rows of user_dataloader consumed
    user2vector,        \* dict: clicked_news_string -> user vector
    count,              \* line 295
    candidate_news_vector,  \* line 307, of the last impression scored
    user_vector,        \* line 312, of the last impression scored
    out_file,           \* lines written to prediction.txt
    news_encoded,       \* ids passed to model.get_news_vector, one entry per call
    user_encoded,       \* strings passed to model.get_user_vector, one entry per call
    (* ---- SpecRank: lines 313-326 alone ---- *)
    rk_pc, impression_id, y_pred_prob, y_pred, rk_line,
    (* ---- SpecNeut: neutralize_embeddings alone ---- *)
    nt_pc, nt_i, nt_embeddings, nt_bias_subspace, nt_normalized

evalVars == <<news_table, behaviors_table, max_count, batch_size, pc, news_idx,
              news2vector, neutralized_embeddings_tensor, user_dataset, user_idx,
              user2vector, count,
              candidate_news_vector, user_vector, out_file, news_encoded,
              user_encoded>>
rankVars == <<rk_pc, impression_id, y_pred_prob, y_pred, rk_line>>
neutVars == <<nt_pc, nt_i, nt_embeddings, nt_bias_subspace, nt_normalized>>
vars == <<evalVars, rankVars, neutVars>>

(***************************************************************************)
(* Bounds                                                                  *)
(***************************************************************************)
MaxProb == 9        \* probabilities are 0..MaxProb tenths
MaxCand == 3        \* candidates of an impression in SpecRank

Range(s) == {s[i] : i \in DOMAIN s}

\* The function f on 1..n as the tuple <<f[1], ..., f[n]>> (the same value,
\* with its entries evaluated once).
Tup(f) == SubSeq(f, 1, Len(f))

Min(a, b) == IF a < b THEN a ELSE b

(***************************************************************************)
(* Ranking: lines 317-326                                                  *)
(***************************************************************************)
\* np.argsort(a, kind='mergesort') over the first n entries: the indices in
\* ascending order of value, equal values in their order of appearance.
\* Index n is inserted after every index whose value is <= a[n].
RECURSIVE StableArgsort(_, _)
StableArgsort(a, n) ==
    IF n = 0 THEN <<>>
    ELSE LET prev == StableArgsort(a, n - 1)
             keep == Cardinality({p \in DOMAIN prev : a[prev[p]] <= a[n]})
         IN  SubSeq(prev, 1, keep) \o <<n>> \o SubSeq(prev, keep + 1, Len(prev))

\* A faulty variant of rankdata: an unstable sort that puts the later of two equal
\* values first.
RECURSIVE ArgsortLaterFirst(_, _)
ArgsortLaterFirst(a, n) ==
    IF n = 0 THEN <<>>
    ELSE LET prev == ArgsortLaterFirst(a, n - 1)
             keep == Cardinality({p \in DOMAIN prev : a[prev[p]] < a[n]})
         IN  SubSeq(prev, 1, keep) \o <<n>> \o SubSeq(prev, keep + 1, Len(prev))

rankdata_ties_reversed(a) ==
    LET sorter == ArgsortLaterFirst(a, Len(a))
    IN  [i \in DOMAIN a |-> CHOOSE p \in DOMAIN sorter : sorter[p] = i]

\* A faulty variant of rankdata: method='min', equal values share the lowest rank.
rankdata_min(a) ==
    [i \in DOMAIN a |-> Cardinality({j \in DOMAIN a : a[j] < a[i]}) + 1]

\* scipy.stats.rankdata(a, method='ordinal'): inv[sorter] = arange(n); inv + 1.
\* (arange starts at 0 and positions of a TLA+ sequence at 1.)
rankdata(a) ==
    LET sorter == StableArgsort(a, Len(a))
    IN  [i \in DOMAIN a |-> CHOOSE p \in DOMAIN sorter : sorter[p] = i]

\* A faulty variant of Ranks: the ascending ranks, written as they are.
RanksAscending(prob) == rankdata(prob)

\* line 318: y_pred = len(y_pred_prob) - rankdata(y_pred_prob, 'ordinal') + 1
Ranks(prob) ==
    LET r == rankdata(prob)
    IN  [i \in DOMAIN prob |-> Len(prob) - r[i] + 1]

\* line 325: ','.join(strs)
RECURSIVE Join(_)
Join(strs) ==
    IF Len(strs) = 0 THEN ""
    ELSE IF Len(strs) = 1 THEN strs[1]
    ELSE strs[1] \o "," \o Join(Tail(strs))

\* lines 324-326: f'{impression_id} [{y_pred_str}]\n'
FormatLine(id, ranks) ==
    ToString(id) \o " [" \o Join([i \in DOMAIN ranks |-> ToString(ranks[i])]) \o "]\n"

(***************************************************************************)
(* Exact vectors                                                           *)
(***************************************************************************)
\* embedding_dim = embeddings.shape[1]
Dim == 3

\* identify_bias_subspace's default rank: V[:, :k]
K == 2

Coords == {-1, 0, 1}
IntVecs == [1..Dim -> Coords]
ZeroNum == [d \in 1..Dim |-> 0]

RECURSIVE DotN(_, _, _)
DotN(a, b, n) == IF n = 0 THEN 0 ELSE DotN(a, b, n - 1) + a[n] * b[n]
Dot(a, b) == DotN(a, b, Dim)

Abs(x) == IF x < 0 THEN -x ELSE x

\* The integer vector v as the real vector v / 1.
Raw(v) == [num |-> v, sq |-> 1]
\* torch.zeros(...)
ZeroVec == Raw(ZeroNum)
\* 0/0 in every component
IsNaN(e) == e.sq = 0

\* One value, one representation: num / sqrt(sq) with the largest common
\* factor g (g | num[d] for every d, g*g | sq) divided out, and 0 as 0 / 1.
Canon(e) ==
    IF e.sq = 0 THEN e
    ELSE IF e.num = ZeroNum THEN ZeroVec
    ELSE LET top == CHOOSE m \in {Abs(e.num[d]) : d \in 1..Dim} :
                        \A d \in 1..Dim : Abs(e.num[d]) <= m
             g == CHOOSE x \in 1..top :
                      /\ \A d \in 1..Dim : e.num[d] % x = 0
                      /\ e.sq % (x * x) = 0
                      /\ \A y \in (x + 1)..top :
                            ~ (/\ \A d \in 1..Dim : e.num[d] % y = 0
                               /\ e.sq % (y * y) = 0)
         IN  [num |-> Tup([d \in 1..Dim |-> e.num[d] \div g]), sq |-> e.sq \div (g * g)]

(***************************************************************************)
(* neutralize_embeddings: lines 195-204                                    *)
(* A column of bias_subspace is an integer direction v standing for the    *)
(* unit vector v / sqrt(v.v); the projection (e.v^)v^ = (e.v) v / (v.v)    *)
(* does not depend on the sign of v, so one sign of each direction is kept.*)
(***************************************************************************)
\* A faulty variant of RemoveProjection: the projection is subtracted twice (a
\* reflection instead of a projection).
RemoveProjectionTwice(e, v) ==
    LET vv == Dot(v, v)
    IN  Canon([num |-> Tup([d \in 1..Dim |-> vv * e.num[d] - 2 * Dot(e.num, v) * v[d]]),
               sq  |-> e.sq * vv * vv])

\* lines 198-199, one row: e - (e . v^) v^
\*   = (vv * num - (num . v) v) / (vv * sqrt(sq))
RemoveProjection(e, v) ==
    LET vv == Dot(v, v)
    IN  Canon([num |-> Tup([d \in 1..Dim |-> vv * e.num[d] - Dot(e.num, v) * v[d]]),
               sq  |-> e.sq * vv * vv])

\* lines 202-203, one row: e / ||e||, with ||e|| = sqrt(num.num) / sqrt(sq),
\* so e / ||e|| = num / sqrt(num.num).  A zero row divides 0 by 0.
Normalize(e) == Canon([num |-> e.num, sq |-> Dot(e.num, e.num)])

\* One iteration of the loop of lines 196-203 for column `component`:
\* embeddings is updated in place, normalized_embeddings is assigned.
NeutralizeIteration(embeddings, component) ==
    LET removed == Tup([r \in DOMAIN embeddings |->
                           RemoveProjection(embeddings[r], component)])
    IN  [embeddings |-> removed,
         normalized_embeddings |-> Tup([r \in DOMAIN removed |-> Normalize(removed[r])])]

\* The loop run from iteration i + 1 to the end.
RECURSIVE NeutralizeFrom(_, _, _, _)
NeutralizeFrom(embeddings, normalized, subspace, i) ==
    IF i = Len(subspace)
    THEN [embeddings |-> embeddings, normalized_embeddings |-> normalized]
    ELSE LET it == NeutralizeIteration(embeddings, subspace[i + 1])
         IN  NeutralizeFrom(it.embeddings, it.normalized_embeddings, subspace, i + 1)

\* neutralize_embeddings(embeddings, bias_subspace), for a subspace of at
\* least one column.
neutralize_embeddings(embeddings, subspace) ==
    NeutralizeFrom(embeddings, <<>>, subspace, 0)

(***************************************************************************)
(* Orthogonal bases                                                        *)
(***************************************************************************)
\* One vector of each direction: the first non-zero coordinate is positive.
Dirs == {w : w \in {v \in IntVecs :
            /\ v # ZeroNum
            /\ \E d \in 1..Dim : v[d] > 0 /\ \A c \in 1..(d - 1) : v[c] = 0}}

\* The orthogonal matrices V, column by column.
Frames == {g : g \in {f \in [1..Dim -> Dirs] :
              \A i \in 1..Dim : \A j \in 1..Dim : i # j => Dot(f[i], f[j]) = 0}}

(***************************************************************************)
(* compute_category_means, construct_c, identify_bias_subspace             *)
(* The rows handed to them are encoder outputs, integer vectors (sq = 1).  *)
(***************************************************************************)
RECURSIVE SumVec(_, _)
SumVec(rows, S) ==
    IF S = {} THEN ZeroNum
    ELSE LET r == CHOOSE x \in S : TRUE
             rest == SumVec(rows, S \ {r})
         IN  Tup([d \in 1..Dim |-> rows[r].num[d] + rest[d]])

RECURSIVE SumInt(_, _)
SumInt(f, S) ==
    IF S = {} THEN 0
    ELSE LET r == CHOOSE x \in S : TRUE IN f[r] + SumInt(f, S \ {r})

RECURSIVE Fact(_)
Fact(n) == IF n <= 1 THEN 1 ELSE n * Fact(n - 1)

\* mask = (categories == c)
Mask(categories, c) == {r \in DOMAIN categories : categories[r] = c}

\* lines 168-173.  means[c] = embeddings[mask].mean(dim=0), kept as the
\* exact fraction sum / n.
compute_category_means(embeddings, categories, categories_unique) ==
    [c \in categories_unique |->
        [sum |-> SumVec(embeddings, Mask(categories, c)),
         n   |-> Cardinality(Mask(categories, c))]]

\* lines 177-185.  diff = e - sum/n = (n e - sum) / n and each row adds
\* outer(diff, diff) / n = outer(n e - sum, n e - sum) / n^3.  The matrix
\* returned is C times (N!)^3, N the number of rows: an integer matrix with
\* the singular vectors, and the order of the singular values, of C.
construct_c(embeddings, categories, category_means, categories_unique) ==
    LET scale == Fact(Len(embeddings)) * Fact(Len(embeddings)) * Fact(Len(embeddings))
        diffs == Tup([r \in DOMAIN embeddings |->
                        LET m == category_means[categories[r]]
                        IN  Tup([d \in 1..Dim |-> m.n * embeddings[r].num[d] - m.sum[d]])])
        weight == Tup([r \in DOMAIN embeddings |->
                        LET m == category_means[categories[r]]
                        IN  scale \div (m.n * m.n * m.n)])
    IN  Tup([a \in 1..Dim |-> Tup([b \in 1..Dim |->
            SumInt(Tup([r \in DOMAIN embeddings |-> weight[r] * diffs[r][a] * diffs[r][b]]),
                   DOMAIN embeddings)])])

MatVec(C, v) == Tup([a \in 1..Dim |-> Dot(C[a], v)])

\* V is a matrix of right singular vectors of the symmetric positive
\* semi-definite C: every column v is an eigenvector (C v parallel to v) and
\* the singular values (v.Cv)/(v.v) do not increase from column to column.
IsSVD(C, V) ==
    /\ \A i \in 1..Dim :
          LET v == V[i] Cv == MatVec(C, V[i])
          IN  \A d \in 1..Dim : Cv[d] * Dot(v, v) = Dot(v, Cv) * v[d]
    /\ \A i \in 1..(Dim - 1) :
          Dot(V[i], MatVec(C, V[i])) * Dot(V[i + 1], V[i + 1])
             >= Dot(V[i + 1], MatVec(C, V[i + 1])) * Dot(V[i], V[i])

\* lines 189-191: torch.svd(C), then V[:, :k].  With equal singular values
\* the basis is the library's choice: every result is possible.
identify_bias_subspace(C) ==
    {SubSeq(V, 1, Min(K, Dim)) : V \in {F \in Frames : IsSVD(C, F)}}

(***************************************************************************)
(* Strings of the input tables: a string is the sequence of its pieces, a  *)
(* piece being a run of characters without ' ' and '-', or " ", or "-".    *)
(***************************************************************************)
RECURSIVE Concat(_)
Concat(pieces) == IF pieces = <<>> THEN "" ELSE pieces[1] \o Concat(Tail(pieces))

\* str.split(): the maximal runs without white space, none of them empty.
RECURSIVE Words(_)
Words(s) ==
    IF s = <<>> THEN <<>>
    ELSE IF s[1] = " " THEN Words(Tail(s))
    ELSE LET rest == Words(Tail(s))
         IN  IF Len(s) > 1 /\ s[2] # " "
             THEN <<(<<s[1]>> \o rest[1])>> \o Tail(rest)
             ELSE <<(<<s[1]>>)>> \o rest

\* word.split('-')[0]
RECURSIVE BeforeDash(_)
BeforeDash(w) ==
    IF w = <<>> \/ w[1] = "-" THEN <<>> ELSE <<w[1]>> \o BeforeDash(Tail(w))

\* pandas reads an empty field as NaN; fillna(' ') (lines 90 and 139)
fillna(field) == IF field = <<>> THEN <<" ">> ELSE field

(***************************************************************************)
(* Datasets                                                                *)
(***************************************************************************)
\* config.num_clicked_news_a_user
num_clicked_news_a_user == 2

\* NewsDataset / DataLoader(shuffle=False, drop_last=False): the rows
\* idx+1 .. idx+size of a table, fewer at its end.
Minibatch(table, idx, size) == SubSeq(table, idx + 1, Min(idx + size, Len(table)))

\* drop_duplicates(): a row equal to an earlier row is dropped.
RECURSIVE drop_duplicates(_)
drop_duplicates(rows) ==
    IF rows = <<>> THEN <<>>
    ELSE LET init == drop_duplicates(SubSeq(rows, 1, Len(rows) - 1))
             last == rows[Len(rows)]
         IN  IF last \in Range(init) THEN init ELSE Append(init, last)

\* A faulty variant of UserDataset: rows are deduplicated by user alone.
RECURSIVE DropDuplicateUsers(_)
DropDuplicateUsers(rows) ==
    IF rows = <<>> THEN <<>>
    ELSE LET init == DropDuplicateUsers(SubSeq(rows, 1, Len(rows) - 1))
             last == rows[Len(rows)]
         IN  IF \E r \in Range(init) : r.user = last.user THEN init ELSE Append(init, last)

UserDatasetByUser(behaviors) ==
    DropDuplicateUsers([r \in DOMAIN behaviors |->
        [user |-> behaviors[r].user, clicked_news |-> fillna(behaviors[r].clicked_news)]])

\* UserDataset.__init__, lines 84-91: columns 1 and 3, fillna, drop_duplicates.
\* (Lines 92-101 rewrite the user column, which evaluate never reads.)
UserDataset(behaviors) ==
    drop_duplicates([r \in DOMAIN behaviors |->
        [user |-> behaviors[r].user, clicked_news |-> fillna(behaviors[r].clicked_news)]])

\* UserDataset.__getitem__, lines 106-123
UserItem(row) ==
    LET words == Words(row.clicked_news)
        kept == SubSeq(words, 1, Min(num_clicked_news_a_user, Len(words)))
        clicked == [i \in DOMAIN kept |-> Concat(kept[i])]
        repeated_times == num_clicked_news_a_user - Len(clicked)
    IN  [clicked_news_string |-> row.clicked_news,
         clicked_news |-> [i \in 1..repeated_times |-> "PADDED_NEWS"] \o clicked]

\* BehaviorsDataset, lines 130-154: fillna on clicked_news, str.split() on
\* impressions.
BehaviorsItem(row) ==
    [impression_id |-> row.impression_id,
     clicked_news_string |-> fillna(row.clicked_news),
     impressions |-> Words(row.impressions)]

\* A faulty variant of CandidateIds: an id the store lacks is replaced by the
\* padding id.
CandidateIdsPadded(item) ==
    [i \in DOMAIN item.impressions |->
        LET id == Concat(BeforeDash(item.impressions[i]))
        IN  IF id \in DOMAIN news2vector THEN id ELSE "PADDED_NEWS"]

\* line 308: news[0].split('-')[0] for every candidate
CandidateIds(item) ==
    [i \in DOMAIN item.impressions |-> Concat(BeforeDash(item.impressions[i]))]

(***************************************************************************)
(* The dictionaries                                                        *)
(***************************************************************************)
EmptyDict == <<>>

\* A faulty variant of NeedsEncoding: the minibatch is encoded whatever the store
\* holds.
NeedsEncodingAlways(keys, store) == TRUE

\* lines 233 and 278: any(key not in store for key in keys)
NeedsEncoding(keys, store) == \E i \in DOMAIN keys : keys[i] \notin DOMAIN store

\* lines 235-237 and 285-287: for key, vector in zip(keys, vectors):
\*     if key not in store: store[key] = vector
InsertNew(store, keys, vectors) ==
    [k \in DOMAIN store \cup Range(keys) |->
        IF k \in DOMAIN store THEN store[k]
        ELSE vectors[CHOOSE i \in DOMAIN keys :
                        keys[i] = k /\ \A j \in 1..(i - 1) : keys[j] # k]]

\* A faulty variant of RebuildStore: line 260 left out, the store keeps the
\* encoder's vectors.
KeepStore(store, news_ids, neutralized) ==
    [k \in DOMAIN store \cup {"PADDED_NEWS"} |->
        IF k = "PADDED_NEWS" THEN ZeroVec ELSE store[k]]

\* lines 260-263: {nid: emb for nid, emb in zip(news_ids, neutralized)}, a
\* later row of an id replacing an earlier one, then the padding entry.
RebuildStore(store, news_ids, neutralized) ==
    [k \in Range(news_ids) \cup {"PADDED_NEWS"} |->
        IF k = "PADDED_NEWS" THEN ZeroVec
        ELSE neutralized[CHOOSE i \in DOMAIN news_ids :
                            news_ids[i] = k /\ \A j \in (i + 1)..Len(news_ids) : news_ids[j] # k]]

(***************************************************************************)
(* The model, an external collaborator                                     *)
(***************************************************************************)
\* model.get_news_vector(minibatch): one vector per record, in order.  A
\* record's vec field is what the encoder makes of its attributes.
get_news_vector(minibatch) == Tup([i \in DOMAIN minibatch |-> Raw(minibatch[i].vec)])

\* model.get_user_vector(clicked_news_vector): one vector per user of the
\* batch, a function of the user's stacked history vectors and nothing else.
get_user_vector(clicked_news_vector) ==
    [i \in DOMAIN clicked_news_vector |-> [of |-> clicked_news_vector[i]]]

UserVectorHasNaN(uv) == \E i \in DOMAIN uv.of : IsNaN(uv.of[i])

\* Scores of the pipeline are 0..MaxScore; NaNScore stands for NaN, which
\* np.argsort orders after every number.
MaxScore == 1
NaNScore == MaxScore + 1

\* model.get_prediction(candidates, user): one score per candidate, any
\* value, and NaN exactly where an input of the score is NaN.
get_prediction(candidates, uv) ==
    {p \in [DOMAIN candidates -> 0..NaNScore] :
        \A i \in DOMAIN candidates :
            (p[i] = NaNScore) <=> (IsNaN(candidates[i]) \/ UserVectorHasNaN(uv))}

(***************************************************************************)
(* Inputs of evaluate()                                                    *)
(***************************************************************************)
MaxNews == 2        \* rows of news_parsed.tsv
MaxImpr == 2        \* rows of behaviors.tsv
MaxBatch == 2       \* config.batch_size * 16

NewsIds == {"N1", "N2"}
Categories == {0, 1}
\* What the encoder makes of the attributes of each news record.
NewsContent == [id \in NewsIds |-> IF id = "N1" THEN <<1, 0, 0>> ELSE <<0, 1, 0>>]
NewsRows == {[id |-> i, category |-> c, vec |-> NewsContent[i]] :
                i \in NewsIds, c \in Categories}

\* lines 239-255 on the encoder's vectors of a table
ScatterOf(table) ==
    LET categories == [r \in DOMAIN table |-> table[r].category]
        embeddings == Tup([r \in DOMAIN table |-> Raw(table[r].vec)])
        means == compute_category_means(embeddings, categories, Range(categories))
    IN  construct_c(embeddings, categories, means, Range(categories))

\* The news tables: a news id has one record (rows of one id agree), the
\* category codes are numbered in the order of their first row (the code
\* compares them for equality only), and the singular vectors of the scatter
\* matrix are among Frames.
NewsTables ==
    {u : u \in {t \in UNION {[1..n -> NewsRows] : n \in 1..MaxNews} :
        /\ \A i \in DOMAIN t : \A j \in DOMAIN t : t[i].id = t[j].id => t[i] = t[j]
        /\ \A i \in DOMAIN t :
              t[i].category = 0 \/ \E j \in 1..(i - 1) : t[j].category = t[i].category - 1
        /\ identify_bias_subspace(ScatterOf(t)) # {}}}

Users == {"U1", "U2"}
\* clicked_news: empty, "N1 N1 N2"
Histories == {<<>>, <<"N1", " ", "N1", " ", "N2">>}
\* impressions: "N1-1", "N1-0 N2-1"
ImpressionStrings == {<<"N1", "-", "1">>, <<"N1", "-", "0", " ", "N2", "-", "1">>}

\* The behaviors tables: impression ids are 1, 2, ... (the time column is
\* never read).
BehaviorsTables ==
    {[i \in DOMAIN t |-> [impression_id |-> i, user |-> t[i].user,
                           clicked_news |-> t[i].clicked_news,
                           impressions |-> t[i].impressions]] :
        t \in UNION {[1..n -> [user : Users, clicked_news : Histories,
                               impressions : ImpressionStrings]] : n \in 1..MaxImpr}}

NoUserVector == [of |-> <<>>]

RankIdle ==
    /\ rk_pc = "idle" /\ impression_id = 0 /\ y_pred_prob = <<>>
    /\ y_pred = <<>> /\ rk_line = ""

NeutIdle ==
    /\ nt_pc = "idle" /\ nt_i = 0 /\ nt_embeddings = <<>>
    /\ nt_bias_subspace = <<>> /\ nt_normalized = <<>>

EvalStart ==
    /\ pc = "news"
    /\ news_idx = 0
    /\ news2vector = EmptyDict
    /\ neutralized_embeddings_tensor = <<>>
    /\ user_dataset = <<>>
    /\ user_idx = 0
    /\ user2vector = EmptyDict
    /\ count = 0
    /\ candidate_news_vector = <<>>
    /\ user_vector = NoUserVector
    /\ out_file = <<>>
    /\ news_encoded = <<>>
    /\ user_encoded = <<>>

Init ==
    /\ news_table \in NewsTables
    /\ behaviors_table = <<>>
    /\ max_count \in 0..(MaxImpr + 1)
    /\ batch_size \in 1..MaxBatch
    /\ EvalStart
    /\ RankIdle
    /\ NeutIdle

(***************************************************************************)
(* evaluate(), lines 229-237: the news encoding loop                       *)
(***************************************************************************)
NewsBatch == Minibatch(news_table, news_idx, batch_size)
NewsBatchIds == [i \in DOMAIN NewsBatch |-> NewsBatch[i].id]

\* A minibatch all of whose ids are in the store: line 233 is false.
SkipNews ==
    /\ pc = "news"
    /\ news_idx < Len(news_table)
    /\ ~ NeedsEncoding(NewsBatchIds, news2vector)
    /\ news_idx' = news_idx + Len(NewsBatch)
    /\ UNCHANGED <<news_table, behaviors_table, max_count, batch_size, pc,
                   news2vector, neutralized_embeddings_tensor, user_dataset,
                   user_idx, user2vector, count, candidate_news_vector,
                   user_vector, out_file, news_encoded, user_encoded,
                   rankVars, neutVars>>

EncodeNews ==
    /\ pc = "news"
    /\ news_idx < Len(news_table)
    /\ NeedsEncoding(NewsBatchIds, news2vector)
    /\ news2vector' = InsertNew(news2vector, NewsBatchIds, get_news_vector(NewsBatch))
    /\ news_encoded' = Append(news_encoded, NewsBatchIds)
    /\ news_idx' = news_idx + Len(NewsBatch)
    /\ UNCHANGED <<news_table, behaviors_table, max_count, batch_size, pc,
                   neutralized_embeddings_tensor, user_dataset, user_idx, user2vector, count,
                   candidate_news_vector, user_vector, out_file, user_encoded,
                   rankVars, neutVars>>

(***************************************************************************)
(* evaluate(), lines 239-263: debiasing                                    *)
(***************************************************************************)
Debias ==
    /\ pc = "news"
    /\ news_idx = Len(news_table)
    /\ LET news_ids == [r \in DOMAIN news_table |-> news_table[r].id]
           categories == [r \in DOMAIN news_table |-> news_table[r].category]
           categories_unique == Range(categories)
           embeddings_tensor == Tup([r \in DOMAIN news_ids |-> news2vector[news_ids[r]]])
           category_means ==
               compute_category_means(embeddings_tensor, categories, categories_unique)
           C == construct_c(embeddings_tensor, categories, category_means,
                            categories_unique)
       IN  \E bias_subspace \in identify_bias_subspace(C) :
              LET result == neutralize_embeddings(embeddings_tensor, bias_subspace)
              IN  /\ neutralized_embeddings_tensor' = result.normalized_embeddings
                  /\ news2vector' = RebuildStore(news2vector, news_ids,
                                                 result.normalized_embeddings)
    /\ pc' = "load"
    /\ UNCHANGED <<news_table, behaviors_table, max_count, batch_size, news_idx,
                   user_dataset, user_idx, user2vector, count,
                   candidate_news_vector, user_vector, out_file, news_encoded,
                   user_encoded, rankVars, neutVars>>

(***************************************************************************)
(* evaluate(), lines 265-274: behaviors.tsv is read                        *)
(***************************************************************************)
LoadBehaviors ==
    /\ pc = "load"
    /\ behaviors_table' \in BehaviorsTables
    /\ user_dataset' = UserDataset(behaviors_table')
    /\ user2vector' = EmptyDict
    /\ pc' = "users"
    /\ UNCHANGED <<news_table, max_count, batch_size, news_idx, news2vector,
                   neutralized_embeddings_tensor, user_idx, count,
                   candidate_news_vector, user_vector, out_file, news_encoded,
                   user_encoded, rankVars, neutVars>>

(***************************************************************************)
(* evaluate(), lines 265-287: the user encoding loop                       *)
(***************************************************************************)
\* The minibatch of user_dataloader that starts after row user_idx.
UserBatch ==
    LET rows == Minibatch(user_dataset, user_idx, batch_size)
    IN  Tup([i \in DOMAIN rows |-> UserItem(rows[i])])

Strings(batch) == Tup([i \in DOMAIN batch |-> batch[i].clicked_news_string])

\* lines 279-283 raise KeyError unless every id looked up is in the store.
HistoryKnown(batch) ==
    \A i \in DOMAIN batch :
        \A j \in DOMAIN batch[i].clicked_news :
            batch[i].clicked_news[j] \in DOMAIN news2vector

SkipUsers ==
    /\ pc = "users"
    /\ user_idx < Len(user_dataset)
    /\ LET minibatch == UserBatch
       IN  /\ ~ NeedsEncoding(Strings(minibatch), user2vector)
           /\ user_idx' = user_idx + Len(minibatch)
    /\ UNCHANGED <<news_table, behaviors_table, max_count, batch_size, pc,
                   news_idx, news2vector, neutralized_embeddings_tensor,
                   user_dataset, user2vector, count, candidate_news_vector,
                   user_vector, out_file, news_encoded, user_encoded,
                   rankVars, neutVars>>

EncodeUsers ==
    /\ pc = "users"
    /\ user_idx < Len(user_dataset)
    /\ LET minibatch == UserBatch
           user_strings == Strings(minibatch)
           clicked_news_vector ==
               Tup([i \in DOMAIN minibatch |->
                   Tup([j \in DOMAIN minibatch[i].clicked_news |->
                       news2vector[minibatch[i].clicked_news[j]]])])
       IN  /\ NeedsEncoding(user_strings, user2vector)
           /\ HistoryKnown(minibatch)
           /\ user2vector' = InsertNew(user2vector, user_strings,
                                       get_user_vector(clicked_news_vector))
           /\ user_encoded' = Append(user_encoded, user_strings)
           /\ user_idx' = user_idx + Len(minibatch)
    /\ UNCHANGED <<news_table, behaviors_table, max_count, batch_size, pc,
                   news_idx, news2vector, neutralized_embeddings_tensor,
                   user_dataset, count, candidate_news_vector, user_vector,
                   out_file, news_encoded, rankVars, neutVars>>

\* KeyError at line 280: evaluate is left by the exception.
UsersKeyError ==
    /\ pc = "users"
    /\ user_idx < Len(user_dataset)
    /\ LET minibatch == UserBatch
       IN  /\ NeedsEncoding(Strings(minibatch), user2vector)
           /\ ~ HistoryKnown(minibatch)
    /\ pc' = "error"
    /\ UNCHANGED <<news_table, behaviors_table, max_count, batch_size,
                   news_idx, news2vector, neutralized_embeddings_tensor,
                   user_dataset, user_idx, user2vector, count,
                   candidate_news_vector, user_vector, out_file, news_encoded,
                   user_encoded, rankVars, neutVars>>

\* lines 289-299: count = 0, prediction.txt opened for writing
OpenOutput ==
    /\ pc = "users"
    /\ user_idx = Len(user_dataset)
    /\ count' = 0
    /\ out_file' = <<>>
    /\ pc' = "rank"
    /\ UNCHANGED <<news_table, behaviors_table, max_count, batch_size,
                   news_idx, news2vector, neutralized_embeddings_tensor,
                   user_dataset, user_idx, user2vector, candidate_news_vector,
                   user_vector, news_encoded, user_encoded, rankVars, neutVars>>

(***************************************************************************)
(* evaluate(), lines 301-327: the ranking loop, batch_size = 1             *)
(***************************************************************************)
\* The minibatch of the iteration that starts now: impression count + 1.
Impression == BehaviorsItem(behaviors_table[count + 1])

\* lines 307-312 raise KeyError unless every key looked up is in its store.
LookupsKnown(item) ==
    /\ \A i \in DOMAIN CandidateIds(item) :
          CandidateIds(item)[i] \in DOMAIN news2vector
    /\ item.clicked_news_string \in DOMAIN user2vector

\* lines 307-311
CandidateVectors(item) ==
    LET ids == CandidateIds(item)
    IN  Tup([i \in DOMAIN ids |-> news2vector[ids[i]]])

HasNaNScore(p) == \E i \in DOMAIN p : p[i] = NaNScore

\* The dataloader is exhausted: line 327.
RankEnd ==
    /\ pc = "rank"
    /\ count = Len(behaviors_table)
    /\ pc' = "done"
    /\ UNCHANGED <<news_table, behaviors_table, max_count, batch_size,
                   news_idx, news2vector, neutralized_embeddings_tensor,
                   user_dataset, user_idx, user2vector, count,
                   candidate_news_vector, user_vector, out_file, news_encoded,
                   user_encoded, rankVars, neutVars>>

\* lines 303-305: count += 1; if count == max_count: break
RankBreak ==
    /\ pc = "rank"
    /\ count < Len(behaviors_table)
    /\ count' = count + 1
    /\ count' = max_count
    /\ pc' = "done"
    /\ UNCHANGED <<news_table, behaviors_table, max_count, batch_size,
                   news_idx, news2vector, neutralized_embeddings_tensor,
                   user_dataset, user_idx, user2vector, candidate_news_vector,
                   user_vector, out_file, news_encoded, user_encoded,
                   rankVars, neutVars>>

\* KeyError at line 308 or 312
RankKeyError ==
    /\ pc = "rank"
    /\ count < Len(behaviors_table)
    /\ count' = count + 1
    /\ count' # max_count
    /\ ~ LookupsKnown(Impression)
    /\ pc' = "error"
    /\ UNCHANGED <<news_table, behaviors_table, max_count, batch_size,
                   news_idx, news2vector, neutralized_embeddings_tensor,
                   user_dataset, user_idx, user2vector, candidate_news_vector,
                   user_vector, out_file, news_encoded, user_encoded,
                   rankVars, neutVars>>

\* lines 307-326 for scores without NaN, and for scores with NaN under a
\* rankdata that ranks NaN as np.argsort orders it, after every number.
RankWrite ==
    /\ pc = "rank"
    /\ count < Len(behaviors_table)
    /\ count' = count + 1
    /\ count' # max_count
    /\ LET minibatch == Impression
       IN  /\ LookupsKnown(minibatch)
           /\ candidate_news_vector' = CandidateVectors(minibatch)
           /\ user_vector' = user2vector[minibatch.clicked_news_string]
           /\ \E click_probability \in
                    get_prediction(candidate_news_vector', user_vector') :
                 out_file' = Append(out_file,
                                    FormatLine(minibatch.impression_id,
                                               Ranks(click_probability)))
    /\ UNCHANGED <<news_table, behaviors_table, max_count, batch_size, pc,
                   news_idx, news2vector, neutralized_embeddings_tensor,
                   user_dataset, user_idx, user2vector, news_encoded,
                   user_encoded, rankVars, neutVars>>

\* lines 307-324 for scores with NaN under a rankdata that returns NaN for
\* them (nan_policy='propagate'): int(nan) raises ValueError at line 324.
RankNaNError ==
    /\ pc = "rank"
    /\ count < Len(behaviors_table)
    /\ count' = count + 1
    /\ count' # max_count
    /\ LET minibatch == Impression
       IN  /\ LookupsKnown(minibatch)
           /\ candidate_news_vector' = CandidateVectors(minibatch)
           /\ user_vector' = user2vector[minibatch.clicked_news_string]
           /\ \E click_probability \in
                    get_prediction(candidate_news_vector', user_vector') :
                 HasNaNScore(click_probability)
    /\ pc' = "error"
    /\ UNCHANGED <<news_table, behaviors_table, max_count, batch_size,
                   news_idx, news2vector, neutralized_embeddings_tensor,
                   user_dataset, user_idx, user2vector, out_file, news_encoded,
                   user_encoded, rankVars, neutVars>>

Next ==
    \/ SkipNews \/ EncodeNews \/ Debias \/ LoadBehaviors
    \/ SkipUsers \/ EncodeUsers \/ UsersKeyError \/ OpenOutput
    \/ RankEnd \/ RankBreak \/ RankKeyError \/ RankWrite \/ RankNaNError

Spec == Init /\ [][Next]_vars

(***************************************************************************)
(* SpecRank: lines 313-326 on every probability vector                     *)
(***************************************************************************)
ImpressionIds == {7, 42}

ProbabilityVectors == UNION {[1..n -> 0..MaxProb] : n \in 1..MaxCand}

\* After line 315: the scores of one impression are known.
InitRank ==
    /\ rk_pc = "scored"
    /\ impression_id \in ImpressionIds
    /\ y_pred_prob \in ProbabilityVectors
    /\ y_pred = <<>>
    /\ rk_line = ""
    /\ pc = "idle" /\ news_table = <<>> /\ behaviors_table = <<>>
    /\ max_count = 0 /\ batch_size = 1
    /\ news_idx = 0 /\ news2vector = EmptyDict
    /\ neutralized_embeddings_tensor = <<>> /\ user_dataset = <<>>
    /\ user_idx = 0 /\ user2vector = EmptyDict /\ count = 0
    /\ candidate_news_vector = <<>> /\ user_vector = NoUserVector
    /\ out_file = <<>> /\ news_encoded = <<>> /\ user_encoded = <<>>
    /\ NeutIdle

\* lines 317-326
RankAndWrite ==
    /\ rk_pc = "scored"
    /\ y_pred' = Ranks(y_pred_prob)
    /\ rk_line' = FormatLine(impression_id, y_pred')
    /\ rk_pc' = "written"
    /\ UNCHANGED <<impression_id, y_pred_prob, evalVars, neutVars>>

NextRank == RankAndWrite

SpecRank == InitRank /\ [][NextRank]_vars

(***************************************************************************)
(* SpecNeut: neutralize_embeddings on every embedding set and basis        *)
(***************************************************************************)
MaxEmb == 1         \* rows of the embeddings tensor in SpecNeut

InitNeut ==
    /\ nt_pc = "loop"
    /\ nt_i = 0
    /\ nt_embeddings \in
          UNION {[1..n -> {Raw(v) : v \in IntVecs}] : n \in 1..MaxEmb}
    /\ nt_bias_subspace \in {SubSeq(V, 1, k) : V \in Frames, k \in 1..Dim}
    /\ nt_normalized = <<>>
    /\ pc = "idle" /\ news_table = <<>> /\ behaviors_table = <<>>
    /\ max_count = 0 /\ batch_size = 1
    /\ news_idx = 0 /\ news2vector = EmptyDict
    /\ neutralized_embeddings_tensor = <<>> /\ user_dataset = <<>>
    /\ user_idx = 0 /\ user2vector = EmptyDict /\ count = 0
    /\ candidate_news_vector = <<>> /\ user_vector = NoUserVector
    /\ out_file = <<>> /\ news_encoded = <<>> /\ user_encoded = <<>>
    /\ RankIdle

\* One iteration of the loop, lines 196-203, for column nt_i (from 0).
NeutStep ==
    /\ nt_pc = "loop"
    /\ nt_i < Len(nt_bias_subspace)
    /\ LET it == NeutralizeIteration(nt_embeddings, nt_bias_subspace[nt_i + 1])
       IN  /\ nt_embeddings' = it.embeddings
           /\ nt_normalized' = it.normalized_embeddings
    /\ nt_i' = nt_i + 1
    /\ UNCHANGED <<nt_pc, nt_bias_subspace, evalVars, rankVars>>

\* line 204: return normalized_embeddings
NeutReturn ==
    /\ nt_pc = "loop"
    /\ nt_i = Len(nt_bias_subspace)
    /\ nt_pc' = "returned"
    /\ UNCHANGED <<nt_i, nt_embeddings, nt_bias_subspace, nt_normalized,
                   evalVars, rankVars>>

NextNeut == NeutStep \/ NeutReturn

SpecNeut == InitNeut /\ [][NextNeut]_vars

(***************************************************************************)
(* Properties of the ranking, checked under SpecRank                       *)
(***************************************************************************)
\* C1 as stated: of two candidates with equal probabilities the earlier one
\* gets the smaller rank, and probabilities [0.5, 0.5, 0.9] give ranks
\* [2, 3, 1].
C1_EarlierWinsTies ==
    rk_pc = "written" =>
        /\ \A i \in DOMAIN y_pred_prob : \A j \in DOMAIN y_pred_prob :
              (i < j /\ y_pred_prob[i] = y_pred_prob[j]) => y_pred[i] < y_pred[j]
        /\ y_pred_prob = <<5, 5, 9>> => y_pred = <<2, 3, 1>>

\* C1 amended: of two candidates with equal probabilities the LATER one gets
\* the smaller rank, and probabilities [0.5, 0.5, 0.9] give ranks [3, 2, 1].
C1_LaterWinsTies ==
    rk_pc = "written" =>
        /\ \A i \in DOMAIN y_pred_prob : \A j \in DOMAIN y_pred_prob :
              (i < j /\ y_pred_prob[i] = y_pred_prob[j]) => y_pred[i] > y_pred[j]
        /\ y_pred_prob = <<5, 5, 9>> => y_pred = <<3, 2, 1>>

C1_Witness ==
    rk_pc = "written" /\ y_pred_prob = <<5, 5, 9>> /\ y_pred = <<3, 2, 1>>

\* C2: the ranks written for an impression of n candidates are a permutation
\* of 1..n, whatever the ties among the probabilities.
C2_RanksArePermutation ==
    rk_pc = "written" =>
        /\ Len(y_pred) = Len(y_pred_prob)
        /\ \A k \in 1..Len(y_pred_prob) :
              Cardinality({i \in DOMAIN y_pred : y_pred[i] = k}) = 1

C2_Witness ==
    /\ rk_pc = "written"
    /\ y_pred_prob = <<5, 5, 5>>
    /\ Range(y_pred) = {1, 2, 3}

\* C3: a candidate with a higher probability gets a smaller rank (the highest
\* gets rank 1), and the ranks are written in candidate order: impression 42
\* with probabilities [0.1, 0.8, 0.3] gives the line "42 [3,1,2]".
C3_HigherProbabilityRanksFirst ==
    rk_pc = "written" =>
        /\ \A i \in DOMAIN y_pred_prob : \A j \in DOMAIN y_pred_prob :
              y_pred_prob[i] > y_pred_prob[j] => y_pred[i] < y_pred[j]
        /\ \A i \in DOMAIN y_pred_prob :
              (\A j \in DOMAIN y_pred_prob : j # i => y_pred_prob[j] < y_pred_prob[i])
                  => y_pred[i] = 1
        /\ (impression_id = 42 /\ y_pred_prob = <<1, 8, 3>>)
              => rk_line = "42 [3,1,2]\n"

C3_Witness ==
    /\ rk_pc = "written"
    /\ impression_id = 42
    /\ y_pred_prob = <<1, 8, 3>>
    /\ rk_line = "42 [3,1,2]\n"

(***************************************************************************)
(* Properties of neutralize_embeddings, checked under SpecNeut             *)
(***************************************************************************)
\* C9: once the loop has removed the directions v_0 .. v_(i-1), every
\* embedding (before renormalization) has dot product zero with each of them;
\* removing a later direction does not bring back a component along an
\* earlier one.  At the return this covers all k directions.
C9_OrthogonalToRemoved ==
    \A j \in 1..nt_i : \A r \in DOMAIN nt_embeddings :
        Dot(nt_embeddings[r].num, nt_bias_subspace[j]) = 0

\* Two directions removed from an embedding that changed and is not zero.
C9_Witness ==
    /\ nt_pc = "returned"
    /\ Len(nt_bias_subspace) = K
    /\ nt_i = K
    /\ nt_embeddings[1].num # ZeroNum
    /\ nt_embeddings[1].sq > 1

(***************************************************************************)
(* Properties of evaluate(), checked under Spec                            *)
(***************************************************************************)
\* How often a key was passed to an encoder, over all its calls.
Passes(log, key) ==
    Cardinality({p \in (DOMAIN log) \X (1..MaxBatch) :
                    p[2] \in DOMAIN log[p[1]] /\ log[p[1]][p[2]] = key})

PassedKeys(log) == UNION {Range(log[n]) : n \in DOMAIN log}

C5_WritesMinLines ==
    pc = "done" => Len(out_file) = Min(max_count, Len(behaviors_table))

\* C6: what the user stage and the ranking stage read from the news store is
\* a neutralized vector or the zero vector of the padding id.  Before the
\* neutralization nothing is read and the padding id is not in the store, so
\* it takes no part in the bias statistics; after it the store holds, for
\* every news id, a row of the neutralized matrix.
C6_OnlyNeutralizedVectorsRead ==
    LET neutralized == Range(neutralized_embeddings_tensor)
    IN  /\ \A k \in DOMAIN user2vector : \A j \in DOMAIN user2vector[k].of :
              user2vector[k].of[j] \in neutralized \cup {ZeroVec}
        /\ \A j \in DOMAIN candidate_news_vector :
              candidate_news_vector[j] \in neutralized
        /\ pc = "news" =>
              /\ "PADDED_NEWS" \notin DOMAIN news2vector
              /\ user2vector = EmptyDict
              /\ candidate_news_vector = <<>>
        /\ pc \in {"load", "users", "rank", "done", "error"} =>
              /\ Len(neutralized_embeddings_tensor) = Len(news_table)
              /\ news2vector["PADDED_NEWS"] = ZeroVec
              /\ \A r \in DOMAIN news_table :
                    news2vector[news_table[r].id] \in neutralized

\* A line was written from a candidate vector that the neutralization
\* changed, for a user whose history holds a padding slot or such a vector.
C6_Witness ==
    /\ pc = "done"
    /\ out_file # <<>>
    /\ \E j \in DOMAIN candidate_news_vector : candidate_news_vector[j].sq > 1
    /\ \E k \in DOMAIN user2vector : \E j \in DOMAIN user2vector[k].of :
          user2vector[k].of[j].sq > 1

\* C7 as stated: no embedding with a NaN component is returned by the
\* neutralization or stored in the news store.
C7_NoNaNStored ==
    /\ \A r \in DOMAIN neutralized_embeddings_tensor :
          ~ IsNaN(neutralized_embeddings_tensor[r])
    /\ \A id \in DOMAIN news2vector : ~ IsNaN(news2vector[id])

\* The news ids of news_parsed.tsv.
C8_NewsIds == {news_table[r].id : r \in DOMAIN news_table}

C8_CandidateMissing(row) ==
    \E w \in Range(Words(row.impressions)) : Concat(BeforeDash(w)) \notin C8_NewsIds

\* One of the first n ids of the row's history is not a news id.
C8_HistoryMissing(row, n) ==
    LET words == Words(row.clicked_news)
    IN  \E i \in 1..Min(n, Len(words)) : Concat(words[i]) \notin C8_NewsIds

\* C8 as stated: when an impression names, among its candidates or anywhere
\* in its history, an id that is not in the news table, no line is written
\* for it or for a later impression.
C8_MissingIdAborts ==
    \A i \in DOMAIN behaviors_table :
        (\/ C8_CandidateMissing(behaviors_table[i])
         \/ C8_HistoryMissing(behaviors_table[i], Len(behaviors_table[i].clicked_news)))
            => Len(out_file) < i

\* C8 amended: when an impression names, among its candidates or among the
\* first num_clicked_news_a_user ids of its history, an id that is not in
\* the news table, no line is written for it or for a later impression.
C8_MissingUsedIdAborts ==
    \A i \in DOMAIN behaviors_table :
        (\/ C8_CandidateMissing(behaviors_table[i])
         \/ C8_HistoryMissing(behaviors_table[i], num_clicked_news_a_user))
            => Len(out_file) < i

\* The run was left by the exception at the second impression, whose
\* candidate is not a news id, after the line of the first one.
C8_Witness ==
    /\ pc = "error"
    /\ count = 2
    /\ Len(out_file) = 1
    /\ C8_CandidateMissing(behaviors_table[2])
    /\ ~ C8_CandidateMissing(behaviors_table[1])

\* The key of a row of behaviors.tsv: its history string, one blank for an
\* empty one.
C10_Key(row) == IF row.clicked_news = <<>> THEN <<" ">> ELSE row.clicked_news

C10_Keys == {C10_Key(behaviors_table[i]) : i \in DOMAIN behaviors_table}

\* C10: after the user stage the user cache holds one entry for every
\* distinct history string of behaviors.tsv (an empty history under its one
\* blank) and nothing else; the key the ranking stage looks up next is in the
\* cache; and an entry is the encoding of its history string alone, so equal
\* history strings are scored with the same user vector whatever the user.
C10_UserCacheComplete ==
    /\ DOMAIN user2vector \subseteq C10_Keys
    /\ pc \in {"rank", "done"} => DOMAIN user2vector = C10_Keys
    /\ (pc = "rank" /\ count < Len(behaviors_table)) =>
          Impression.clicked_news_string \in DOMAIN user2vector
    /\ \A k \in DOMAIN user2vector :
          LET clicked == UserItem([clicked_news |-> k]).clicked_news
          IN  user2vector[k] =
                  get_user_vector(<<[j \in DOMAIN clicked |-> news2vector[clicked[j]]]>>)[1]

\* Two impressions of different users with the same empty history were both
\* scored from the one entry of the cache.
C10_Witness ==
    /\ pc = "done"
    /\ Len(behaviors_table) = 2
    /\ behaviors_table[1].clicked_news = <<>>
    /\ behaviors_table[2].clicked_news = <<>>
    /\ behaviors_table[1].user # behaviors_table[2].user
    /\ Len(out_file) = 2
    /\ DOMAIN user2vector = {<<" ">>}

====
